---- MODULE Spec2Model ----
(***************************************************************************)
(* Reversible (invertible-coupling) transformer training engine of         *)
(* onmt/models/multilingual_translator/reversible_transformers.py, from    *)
(* the construction of the layer objects on, with the batch accounting and *)
(* the out-of-memory handlers of the training loops that drive it.         *)
(*                                                                         *)
(* Tensors are modelled by one element of the field Z_5: addition,         *)
(* subtraction and halving are exact, as in real arithmetic (floating      *)
(* point rounding is abstracted).  A sub-transform is a fixed non-linear   *)
(* function of its input scaled by the dropout mask drawn from the global  *)
(* generator; its vector-Jacobian products are the formal derivatives.     *)
(*                                                                         *)
(* Three smaller specifications over the same variables follow the engine: *)
(* the context-gradient loop of the decoder backward (AccSpec), the        *)
(* DynamicLossScaler of lang_discriminator_trainer.py (ScalerSpec) and     *)
(* _all_reduce_and_rescale_grads of multiprocessing_wrapper.py             *)
(* (ReduceSpec).                                                           *)
(***************************************************************************)
EXTENDS Integers, Sequences, FiniteSets, TLC

VARIABLES opt, model, rng, snap, uses, pgrad, ctxs, run, last, trainer, nCalls, nRaised

vars == <<opt, model, rng, snap, uses, pgrad, ctxs, run, last, trainer, nCalls, nRaised>>

----------------------------------------------------------------------------
(* Bounds *)

NumLayerObjs == 2     \* layer objects of each kind that exist
MaxDepth == 2         \* longest layer list handed to an orchestrator
MaxCalls == 2         \* forward calls issued in one behaviour
MaxRaises == 1        \* sub-transform failures in one behaviour
MaxWindow == 3        \* largest scale_window a loss scaler is constructed with
MaxUpdates == 6       \* update_scale calls made on one loss scaler
MaxGrads == 3         \* gradients of the model handed to one all-reduce
MaxGradSize == 3      \* largest gradient, and largest buffer_size, in bytes

----------------------------------------------------------------------------
(* Tensor values *)

Val == 0 .. 4

Norm(n) == n % 5

Add(a, b) == Norm(a + b)

Sub(a, b) == Norm(a + 5 - b)

Mul(a, b) == Norm(a * b)

\* x.mul_(0.5) / x.div_(2): the unique h with h + h = x
Half(a) == Norm(3 * a)

\* the training batches: a batch fixes the hidden states entering the stack,
\* the shared context and what its gradient accumulator holds when the
\* backward starts, the gradient its loss sends back, its target words and
\* sentences, and the gradient-tracking mode in force where the orchestrators
\* are entered for it
Batches == {[h |-> 1, c |-> 1, context_grad |-> <<>>, g |-> 2,
             tgt_size |-> 1, size |-> 1, grad_mode |-> TRUE],
            [h |-> 2, c |-> 3, context_grad |-> <<2>>, g |-> 1,
             tgt_size |-> 2, size |-> 1, grad_mode |-> FALSE]}

\* Python's None; a present optional value v is <<v>>
None == <<>>

Some(v) == <<v>>

LayerIds == 1 .. NumLayerObjs

EncKeys == {"attn", "ffn"}

DecKeys == {"attn", "ffn1", "src", "ffn2"}

Kinds == {"enc", "dec"}

KeysOf(kind) == IF kind = "enc" THEN EncKeys ELSE DecKeys

Stacks == UNION {[1 .. n -> LayerIds] : n \in 1 .. MaxDepth}

----------------------------------------------------------------------------
(* Random number generators and dropout *)

\* the dropout mask (keep/scale factor) a generator in state s produces
Mask(s) == Norm(2 * s + 1)

\* the generator the sub-transforms draw from: the device's when the
\* tensors live on the device, the host's otherwise
ActiveState(r) == IF opt.cuda THEN r.gpu ELSE r.cpu

\* F.dropout(..., p, training): identity and no draw when p = 0
DropMask(r) == IF opt.dropout THEN Mask(ActiveState(r)) ELSE 1

\* the generator state after one sub-transform has drawn its dropout mask
Draw(r) ==
    IF ~opt.dropout THEN r
    ELSE IF opt.cuda THEN [r EXCEPT !.gpu = @ + 1]
    ELSE [r EXCEPT !.cpu = @ + 1]

\* get_device_states(*args): the devices of the tensor arguments and their states
GetDeviceStates(r) ==
    [devs |-> IF opt.cuda THEN {"cuda"} ELSE {},
     gpu |-> IF opt.cuda THEN Some(r.gpu) ELSE None]

\* a snapshot attribute no forward has set yet
NoSnap == [set |-> FALSE, cpu |-> 0, devs |-> {}, gpu |-> None]

\* InitSeed called after the sub-transform has drawn its mask
InitSeed_Late(r) ==
    [set |-> TRUE, cpu |-> Draw(r).cpu,
     devs |-> GetDeviceStates(r).devs, gpu |-> GetDeviceStates(Draw(r)).gpu]

\* _init_*_seed: the layer snapshot taken from the global generator state
InitSeed(r) ==
    [set |-> TRUE, cpu |-> r.cpu,
     devs |-> GetDeviceStates(r).devs, gpu |-> GetDeviceStates(r).gpu]

\* ForkRng that installs the host state only (no set_device_states)
ForkRng_HostOnly(sn, r) ==
    LET installed == [cpu |-> sn.cpu, gpu |-> r.gpu]
        after == Draw(installed)
    IN [under |-> installed, rng |-> [cpu |-> r.cpu, gpu |-> after.gpu]]

\* ForkRng without the set_rng_state / set_device_states calls
ForkRng_NoInstall(sn, r) ==
    [under |-> r, rng |-> r]

\* ForkRng whose block does not put the saved generator state back
ForkRng_NoRestore(sn, r) ==
    LET installed == [cpu |-> sn.cpu,
                      gpu |-> IF "cuda" \in sn.devs THEN sn.gpu[1] ELSE r.gpu]
    IN [under |-> installed, rng |-> Draw(installed)]

\* with fork_rng(devices): set_rng_state(cpu); set_device_states(devs, states); <draw>
\* yields the state the replay ran under and the global state after the block
ForkRng(sn, r) ==
    LET installed == [cpu |-> sn.cpu,
                      gpu |-> IF "cuda" \in sn.devs THEN sn.gpu[1] ELSE r.gpu]
        after == Draw(installed)
    IN [under |-> installed,
        rng |-> [cpu |-> r.cpu,
                 gpu |-> IF "cuda" \in sn.devs THEN r.gpu ELSE after.gpu]]

----------------------------------------------------------------------------
(* Sub-transforms (Transform Units) *)

KeyNo(k) == CASE k = "attn" -> 0 [] k = "ffn" -> 1 [] k = "ffn1" -> 1
              [] k = "src" -> 2 [] k = "ffn2" -> 3

\* the parameter of sub-transform k of layer object l
Weight(l, k) == ((l + KeyNo(k)) % 4) + 1

\* output of sub-transform k of layer l on input x (and context c) under mask m
Fn(l, k, x, c, m) ==
    IF k = "src" THEN Mul(m, Mul(Weight(l, k), Mul(x, c)))
    ELSE Mul(m, Add(Mul(Weight(l, k), Mul(x, x)), x))

\* out.backward(d): gradient on the input
GradX(l, k, x, c, m, d) ==
    IF k = "src" THEN Mul(d, Mul(m, Mul(Weight(l, k), c)))
    ELSE Mul(d, Mul(m, Add(Mul(Weight(l, k), Mul(2, x)), 1)))

\* out.backward(d): gradient on the parameter
GradW(l, k, x, c, m, d) ==
    IF k = "src" THEN Mul(d, Mul(m, Mul(x, c)))
    ELSE Mul(d, Mul(m, Mul(x, x)))

\* out.backward(d): gradient on the context (cross-attention only)
GradC(l, k, x, c, m, d) == Mul(d, Mul(m, Mul(Weight(l, k), x)))

\* ParamBackward that replaces the parameter gradient already present
ParamBackward_Overwrite(pg, g) == g

\* out.backward(d): what the parameter's gradient holds afterwards, given
\* what it held before and the gradient g this propagation computes
ParamBackward(pg, g) == Add(pg, g)

----------------------------------------------------------------------------
(* Coupling layers *)

\* Invert with the sign of the residual slipped
Invert_Plus(later, out) == Add(later, out)

\* the residual-subtraction rule of backward_pass: X2 = Y2 - G(Y1), X1 = Y1 - F(X2)
Invert(later, out) == Sub(later, out)

\* KeepSnapshots of a backward_pass that deletes the attributes it has used
KeepSnapshots_Discard(sn) == [k \in DOMAIN sn |-> NoSnap]

\* backward_pass reads the snapshot attributes of the layer and assigns none
KeepSnapshots(sn) == sn

\* ResidualAdd written as x.add_(z): the sum lands in the argument tensor
ResidualAdd_InPlace(z, x) == [sum |-> Add(z, x), x |-> Add(z, x)]

\* `z + x` in a layer's forward: a new tensor holds the sum and the stream
\* argument x holds afterwards what it held before
ResidualAdd(z, x) == [sum |-> Add(z, x), x |-> x]

\* InvertArg written as later.sub_(out)
InvertArg_InPlace(later, out) == Sub(later, out)

\* what the stream argument `later` holds after `x = later - out` in
\* backward_pass: the difference is a new tensor
InvertArg(later, out) == later

\* GradArgAfter written as dy.add_(g)
GradArgAfter_InPlace(dy, g) == Add(dy, g)

\* what the gradient argument dy holds after `dx = dy + g` in backward_pass:
\* the sum is a new tensor
GradArgAfter(dy, g) == dy

\* ReversibleTransformerEncoderLayer.forward on layer object l from global
\* generator state r: the outputs, the generator state afterwards, the
\* snapshots stored on the layer and the states each sub-transform ran under
EncLayer_forward(l, x1, x2, same, r) ==
    LET s1 == InitSeed(r)
        z1 == Fn(l, "attn", x2, 0, DropMask(r))
        r1 == Draw(r)
        y1 == ResidualAdd(z1, x1).sum
        x2s == IF same THEN ResidualAdd(z1, x1).x ELSE x2
        s2 == InitSeed(r1)
        z2 == Fn(l, "ffn", y1, 0, DropMask(r1))
        r2 == Draw(r1)
        y2 == ResidualAdd(z2, x2s).sum
    IN [y1 |-> y1, y2 |-> y2, rng |-> r2,
        snap |-> [attn |-> s1, ffn |-> s2],
        ran |-> [attn |-> r, ffn |-> r1],
        mid |-> <<>>,
        outs |-> [attn |-> z1, ffn |-> z2],
        args |-> <<IF same THEN ResidualAdd(z2, x2s).x ELSE ResidualAdd(z1, x1).x,
                   ResidualAdd(z2, x2s).x>>,
        context |-> 0]

\* the order in which backward_pass replays the sub-transforms
EncStages == <<"ffn", "attn">>

\* EncLayer_backward_pass that replays F on the output y2 and propagates dy1
\* into it, instead of the reconstructed x2 and dx1
EncLayer_backward_pass_OnOutput(l, y1, y2, dy1, dy2, same, r, sn, pg) ==
    LET fk1 == ForkRng(sn.ffn, r)
        m1 == DropMask(fk1.under)
        gy1 == Fn(l, "ffn", y1, 0, m1)
        y1grad == GradX(l, "ffn", y1, 0, m1, dy2)
        pgffn == ParamBackward(pg.ffn, GradW(l, "ffn", y1, 0, m1, dy2))
        x2 == Invert(y2, gy1)
        dx1 == Add(dy1, y1grad)
        dy2s == IF same THEN GradArgAfter(dy1, y1grad) ELSE dy2
        fk2 == ForkRng(sn.attn, fk1.rng)
        m2 == DropMask(fk2.under)
        fx2 == Fn(l, "attn", y2, 0, m2)
        x2grad == GradX(l, "attn", y2, 0, m2, dy1)
        pgattn == ParamBackward(pg.attn, GradW(l, "attn", y2, 0, m2, dy1))
        x1 == Invert(y1, fx2)
        dx2 == Add(dy2s, x2grad)
    IN [x1 |-> x1, x2 |-> x2, dx1 |-> dx1, dx2 |-> dx2, gc |-> None,
        sargs |-> <<InvertArg(y1, fx2), InvertArg(y2, gy1)>>,
        gargs |-> <<IF same THEN GradArgAfter(dy2s, x2grad)
                    ELSE GradArgAfter(dy1, y1grad),
                    GradArgAfter(dy2s, x2grad)>>,
        rng |-> fk2.rng,
        pg |-> [attn |-> pgattn, ffn |-> pgffn],
        under |-> [ffn |-> fk1.under, attn |-> fk2.under],
        mids |-> [ffn |-> fk1.rng, attn |-> fk2.rng],
        on |-> [ffn |-> y1, attn |-> y2],
        with |-> [ffn |-> dy2, attn |-> dy1],
        mid |-> <<>>,
        outs |-> [ffn |-> gy1, attn |-> fx2],
        cacc |-> [before |-> None, after |-> None],
        context |-> 0]

\* ReversibleTransformerEncoderLayer.backward_pass on layer object l with the
\* snapshots sn stored on it and its parameter gradients pg
EncLayer_backward_pass(l, y1, y2, dy1, dy2, same, r, sn, pg) ==
    LET fk1 == ForkRng(sn.ffn, r)
        m1 == DropMask(fk1.under)
        gy1 == Fn(l, "ffn", y1, 0, m1)
        y1grad == GradX(l, "ffn", y1, 0, m1, dy2)
        pgffn == ParamBackward(pg.ffn, GradW(l, "ffn", y1, 0, m1, dy2))
        x2 == Invert(y2, gy1)
        dx1 == Add(dy1, y1grad)
        dy2s == IF same THEN GradArgAfter(dy1, y1grad) ELSE dy2
        fk2 == ForkRng(sn.attn, fk1.rng)
        m2 == DropMask(fk2.under)
        fx2 == Fn(l, "attn", x2, 0, m2)
        x2grad == GradX(l, "attn", x2, 0, m2, dx1)
        pgattn == ParamBackward(pg.attn, GradW(l, "attn", x2, 0, m2, dx1))
        x1 == Invert(y1, fx2)
        dx2 == Add(dy2s, x2grad)
    IN [x1 |-> x1, x2 |-> x2, dx1 |-> dx1, dx2 |-> dx2, gc |-> None,
        sargs |-> <<InvertArg(y1, fx2), InvertArg(y2, gy1)>>,
        gargs |-> <<IF same THEN GradArgAfter(dy2s, x2grad)
                    ELSE GradArgAfter(dy1, y1grad),
                    GradArgAfter(dy2s, x2grad)>>,
        rng |-> fk2.rng,
        pg |-> [attn |-> pgattn, ffn |-> pgffn],
        under |-> [ffn |-> fk1.under, attn |-> fk2.under],
        mids |-> [ffn |-> fk1.rng, attn |-> fk2.rng],
        on |-> [ffn |-> y1, attn |-> x2],
        with |-> [ffn |-> dy2, attn |-> dx1],
        mid |-> <<>>,
        outs |-> [ffn |-> gy1, attn |-> fx2],
        cacc |-> [before |-> None, after |-> None],
        context |-> 0]

\* ReversibleTransformerDecoderLayer.forward
DecLayer_forward(l, x1, x2, same, c, r) ==
    LET s1 == InitSeed(r)
        f_x2 == Fn(l, "attn", x2, 0, DropMask(r))
        r1 == Draw(r)
        z1 == ResidualAdd(f_x2, x1).sum
        x2s == IF same THEN ResidualAdd(f_x2, x1).x ELSE x2
        s2 == InitSeed(r1)
        g_z1 == Fn(l, "ffn1", z1, 0, DropMask(r1))
        r2 == Draw(r1)
        z2 == ResidualAdd(g_z1, x2s).sum
        s3 == InitSeed(r2)
        h_z2 == Fn(l, "src", z2, c, DropMask(r2))
        r3 == Draw(r2)
        y1 == Add(z1, h_z2)
        s4 == InitSeed(r3)
        k_y1 == Fn(l, "ffn2", y1, 0, DropMask(r3))
        r4 == Draw(r3)
        y2 == Add(z2, k_y1)
    IN [y1 |-> y1, y2 |-> y2, rng |-> r4,
        snap |-> [attn |-> s1, ffn1 |-> s2, src |-> s3, ffn2 |-> s4],
        ran |-> [attn |-> r, ffn1 |-> r1, src |-> r2, ffn2 |-> r3],
        mid |-> <<z1, z2>>,
        outs |-> [attn |-> f_x2, ffn1 |-> g_z1, src |-> h_z2, ffn2 |-> k_y1],
        args |-> <<IF same THEN ResidualAdd(g_z1, x2s).x ELSE ResidualAdd(f_x2, x1).x,
                   ResidualAdd(g_z1, x2s).x>>,
        context |-> c]

DecStages == <<"ffn2", "src", "ffn1", "attn">>

\* propagation into a tensor that requires grad: its accumulator is set when
\* it is empty and added to otherwise
AccumulateGrad(acc, g) == IF acc = None THEN Some(g) ELSE Some(Add(acc[1], g))

\* DetachedContextAfter of a backward_pass that adds the gradient into the
\* values of the context
DetachedContextAfter_Written(c, cgrad) == Add(c, cgrad)

\* the values of the context after `context.requires_grad = True`, the
\* propagation into it, `grad_context = context.grad` and `del context.grad`:
\* only the gradient accumulator of the detached handle is written
DetachedContextAfter(c, cgrad) == c

\* DecLayer_backward_pass that replays H under the ffn1 snapshot and G1 under
\* the src-attention snapshot
DecLayer_backward_pass_SwappedSnapshots(l, y1, y2, dy1, dy2, same, c, cg, r, sn, pg) ==
    LET fk1 == ForkRng(sn.ffn2, r)
        m1 == DropMask(fk1.under)
        k_y1 == Fn(l, "ffn2", y1, 0, m1)
        y1grad == GradX(l, "ffn2", y1, 0, m1, dy2)
        pgffn2 == ParamBackward(pg.ffn2, GradW(l, "ffn2", y1, 0, m1, dy2))
        z2 == Invert(y2, k_y1)
        dz1 == Add(dy1, y1grad)
        dy2s == IF same THEN GradArgAfter(dy1, y1grad) ELSE dy2
        fk2 == ForkRng(sn.ffn1, fk1.rng)
        m2 == DropMask(fk2.under)
        h_z2 == Fn(l, "src", z2, c, m2)
        z2grad == GradX(l, "src", z2, c, m2, dz1)
        pgsrc == ParamBackward(pg.src, GradW(l, "src", z2, c, m2, dz1))
        cgrad == GradC(l, "src", z2, c, m2, dz1)
        z1 == Invert(y1, h_z2)
        dz2 == Add(dy2s, z2grad)
        grad_context == AccumulateGrad(cg, cgrad)
        fk3 == ForkRng(sn.src, fk2.rng)
        m3 == DropMask(fk3.under)
        g_z1 == Fn(l, "ffn1", z1, 0, m3)
        z1grad == GradX(l, "ffn1", z1, 0, m3, dz2)
        pgffn1 == ParamBackward(pg.ffn1, GradW(l, "ffn1", z1, 0, m3, dz2))
        x2 == Invert(z2, g_z1)
        dx1 == Add(dz1, z1grad)
        fk4 == ForkRng(sn.attn, fk3.rng)
        m4 == DropMask(fk4.under)
        f_x2 == Fn(l, "attn", x2, 0, m4)
        x2grad == GradX(l, "attn", x2, 0, m4, dx1)
        pgattn == ParamBackward(pg.attn, GradW(l, "attn", x2, 0, m4, dx1))
        x1 == Invert(z1, f_x2)
        dx2 == Add(dz2, x2grad)
    IN [x1 |-> x1, x2 |-> x2, dx1 |-> dx1, dx2 |-> dx2, gc |-> grad_context,
        sargs |-> <<InvertArg(y1, h_z2), InvertArg(y2, k_y1)>>,
        gargs |-> <<IF same THEN GradArgAfter(dy2s, z2grad)
                    ELSE GradArgAfter(dy1, y1grad),
                    GradArgAfter(dy2s, z2grad)>>,
        cacc |-> [before |-> cg, after |-> None],
        rng |-> fk4.rng,
        pg |-> [attn |-> pgattn, ffn1 |-> pgffn1, src |-> pgsrc, ffn2 |-> pgffn2],
        under |-> [ffn2 |-> fk1.under, src |-> fk2.under,
                   ffn1 |-> fk3.under, attn |-> fk4.under],
        mids |-> [ffn2 |-> fk1.rng, src |-> fk2.rng,
                  ffn1 |-> fk3.rng, attn |-> fk4.rng],
        on |-> [ffn2 |-> y1, src |-> z2, ffn1 |-> z1, attn |-> x2],
        with |-> [ffn2 |-> dy2, src |-> dz1, ffn1 |-> dz2, attn |-> dx1],
        mid |-> <<z1, z2>>,
        outs |-> [ffn2 |-> k_y1, src |-> h_z2, ffn1 |-> g_z1, attn |-> f_x2],
        context |-> DetachedContextAfter(c, cgrad)]

\* ReversibleTransformerDecoderLayer.backward_pass; c is the detached
\* context handle, whose gradient accumulator starts empty
DecLayer_backward_pass(l, y1, y2, dy1, dy2, same, c, cg, r, sn, pg) ==
    LET fk1 == ForkRng(sn.ffn2, r)
        m1 == DropMask(fk1.under)
        k_y1 == Fn(l, "ffn2", y1, 0, m1)
        y1grad == GradX(l, "ffn2", y1, 0, m1, dy2)
        pgffn2 == ParamBackward(pg.ffn2, GradW(l, "ffn2", y1, 0, m1, dy2))
        z2 == Invert(y2, k_y1)
        dz1 == Add(dy1, y1grad)
        dy2s == IF same THEN GradArgAfter(dy1, y1grad) ELSE dy2
        fk2 == ForkRng(sn.src, fk1.rng)
        m2 == DropMask(fk2.under)
        h_z2 == Fn(l, "src", z2, c, m2)
        z2grad == GradX(l, "src", z2, c, m2, dz1)
        pgsrc == ParamBackward(pg.src, GradW(l, "src", z2, c, m2, dz1))
        cgrad == GradC(l, "src", z2, c, m2, dz1)
        z1 == Invert(y1, h_z2)
        dz2 == Add(dy2s, z2grad)
        grad_context == AccumulateGrad(cg, cgrad)
        fk3 == ForkRng(sn.ffn1, fk2.rng)
        m3 == DropMask(fk3.under)
        g_z1 == Fn(l, "ffn1", z1, 0, m3)
        z1grad == GradX(l, "ffn1", z1, 0, m3, dz2)
        pgffn1 == ParamBackward(pg.ffn1, GradW(l, "ffn1", z1, 0, m3, dz2))
        x2 == Invert(z2, g_z1)
        dx1 == Add(dz1, z1grad)
        fk4 == ForkRng(sn.attn, fk3.rng)
        m4 == DropMask(fk4.under)
        f_x2 == Fn(l, "attn", x2, 0, m4)
        x2grad == GradX(l, "attn", x2, 0, m4, dx1)
        pgattn == ParamBackward(pg.attn, GradW(l, "attn", x2, 0, m4, dx1))
        x1 == Invert(z1, f_x2)
        dx2 == Add(dz2, x2grad)
    IN [x1 |-> x1, x2 |-> x2, dx1 |-> dx1, dx2 |-> dx2, gc |-> grad_context,
        sargs |-> <<InvertArg(y1, h_z2), InvertArg(y2, k_y1)>>,
        gargs |-> <<IF same THEN GradArgAfter(dy2s, z2grad)
                    ELSE GradArgAfter(dy1, y1grad),
                    GradArgAfter(dy2s, z2grad)>>,
        cacc |-> [before |-> cg, after |-> None],
        rng |-> fk4.rng,
        pg |-> [attn |-> pgattn, ffn1 |-> pgffn1, src |-> pgsrc, ffn2 |-> pgffn2],
        under |-> [ffn2 |-> fk1.under, src |-> fk2.under,
                   ffn1 |-> fk3.under, attn |-> fk4.under],
        mids |-> [ffn2 |-> fk1.rng, src |-> fk2.rng,
                  ffn1 |-> fk3.rng, attn |-> fk4.rng],
        on |-> [ffn2 |-> y1, src |-> z2, ffn1 |-> z1, attn |-> x2],
        with |-> [ffn2 |-> dy2, src |-> dz1, ffn1 |-> dz2, attn |-> dx1],
        mid |-> <<z1, z2>>,
        outs |-> [ffn2 |-> k_y1, src |-> h_z2, ffn1 |-> g_z1, attn |-> f_x2],
        context |-> DetachedContextAfter(c, cgrad)]

----------------------------------------------------------------------------
(* State *)

ZeroGrads == [kind \in Kinds |-> [l \in LayerIds |-> [k \in KeysOf(kind) |-> 0]]]

NoSnaps == [kind \in Kinds |-> [l \in LayerIds |-> [k \in KeysOf(kind) |-> NoSnap]]]

IdleRun == [pc |-> "idle"]

\* the options, and the stack the program is about to build: no layer object
\* exists yet; the encoder layers never read opt.ignore_source
Init ==
    /\ opt \in [cuda : BOOLEAN, dropout : BOOLEAN, ignore_source : BOOLEAN,
                batch_size_update : {2}]
    /\ model \in [kind : Kinds, layers : Stacks, status : {"new"},
                  made : {{}}, subs : {[l \in LayerIds |-> {}]}]
    /\ opt.ignore_source => model.kind = "dec"
    /\ rng = [cpu |-> 0, gpu |-> 0]
    /\ snap = NoSnaps
    /\ uses = [l \in LayerIds |-> 0]
    /\ pgrad = ZeroGrads
    /\ ctxs = {}
    /\ run = IdleRun
    /\ last = [status |-> "none"]
    /\ trainer = [counter |-> 0, num_accumulated_words |-> 0,
                  num_accumulated_sents |-> 0, num_updates |-> 0, oom |-> 0]
    /\ nCalls = 0
    /\ nRaised = 0

Depth == Len(run.layers)

----------------------------------------------------------------------------
(* Construction of the layer objects *)

\* ReversibleTransformerEncoderLayer.__init__: the sub-transforms created
EncLayer_init(ignore_source) == [ok |-> TRUE, subs |-> {"attn", "ffn"}]

\* DecLayer_init with the assertion stripped
DecLayer_init_NoAssert(ignore_source) ==
    [ok |-> TRUE,
     subs |-> {"attn", "ffn1"} \cup (IF ~ignore_source THEN {"src"} ELSE {})
                \cup {"ffn2"}]

\* ReversibleTransformerDecoderLayer.__init__: `assert not self.ignore_source`
\* comes before the first sub-transform is created; subs are the
\* sub-transforms created when the constructor returns or raises
DecLayer_init(ignore_source) ==
    IF ignore_source
    THEN [ok |-> FALSE, subs |-> {}]
    ELSE [ok |-> TRUE,
          subs |-> {"attn", "ffn1"} \cup (IF ~ignore_source THEN {"src"} ELSE {})
                     \cup {"ffn2"}]

\* the next layer object of the stack is constructed; a constructor that
\* raises ends the program before any orchestrator is called
ConstructLayer ==
    /\ model.status = "new"
    /\ LET l == Cardinality(model.made) + 1
           res == IF model.kind = "enc" THEN EncLayer_init(opt.ignore_source)
                  ELSE DecLayer_init(opt.ignore_source)
       IN model' = [model EXCEPT
                      !.subs[l] = res.subs,
                      !.made = IF res.ok THEN @ \cup {l} ELSE @,
                      !.status = IF ~res.ok THEN "failed"
                                 ELSE IF l = NumLayerObjs THEN "built" ELSE "new"]
    /\ UNCHANGED <<opt, rng, snap, uses, pgrad, ctxs, run, last, nCalls, nRaised, trainer>>

----------------------------------------------------------------------------
(* Gradient-tracking mode: TRUE when operations are recorded for autograd *)

\* with torch.no_grad():
NoGrad(mode) == FALSE

\* with torch.enable_grad():
EnableGrad(mode) == TRUE

\* LoopMode of an encoder orchestrator whose loop is not inside no_grad
LoopMode_Ambient(kind, mode) == mode

\* the mode in which the forward orchestrator's loop calls a layer: the
\* encoder's loop is inside `with torch.no_grad()`, the decoder's is not
LoopMode(kind, mode) == IF kind = "enc" THEN NoGrad(mode) ELSE mode

\* the mode in which a layer's forward calls each of its sub-transforms: the
\* body of the decoder layer's forward is inside `with torch.no_grad()`, the
\* encoder layer's forward has no block of its own
ForwardModes(kind, mode) ==
    [k \in KeysOf(kind) |-> IF kind = "dec" THEN NoGrad(mode) ELSE mode]

\* backward_pass, per stage: the replay and its .backward() are inside
\* `with torch.enable_grad()`, the inversion and the gradient sum that follow
\* are inside `with torch.no_grad()`
BackwardModes(kind, mode) ==
    [k \in KeysOf(kind) |-> [replay |-> EnableGrad(mode), invert |-> NoGrad(mode)]]

(* Forward orchestrators *)

\* ReversibleEncoderFunction.forward / ReversibleDecoderFunction.forward up to
\* the layer loop: both streams start as the input tensor
ForwardBegin ==
    /\ run.pc = "idle"
    /\ model.status = "built"
    /\ nCalls < MaxCalls
    /\ \E b \in Batches, kind \in {model.kind} :
         run' = [pc |-> "fwd", kind |-> kind, call |-> nCalls + 1,
                 layers |-> model.layers, idx |-> 0, batch |-> b,
                 hidden_states |-> b.h, context |-> IF kind = "dec" THEN b.c ELSE 0,
                 x1 |-> b.h, x2 |-> b.h, fin |-> <<>>, fout |-> <<>>, fran |-> <<>>,
                 fmid |-> <<>>, fsnap |-> <<>>, fz |-> <<>>, fmode |-> <<>>,
                 fargs |-> <<>>, fsame |-> <<>>,
                 pg0 |-> pgrad, rng0 |-> rng, log |-> <<>>, phase |-> "fwd",
                 err |-> "", sub_err |-> "", pos |-> 0, stage |-> 0]
    /\ nCalls' = nCalls + 1
    /\ UNCHANGED <<opt, model, rng, snap, uses, pgrad, ctxs, last, nRaised, trainer>>

\* whether the two stream arguments of the layer at list position p are one
\* tensor object: `x1, x2 = hidden_states, hidden_states` before the loop;
\* every layer returns two tensors of its own
SameStreams(p) == p = 1

\* the result of calling the layer at list position p of the running forward
LayerCall(p) ==
    IF run.kind = "enc"
    THEN EncLayer_forward(run.layers[p], run.x1, run.x2, SameStreams(p), rng)
    ELSE DecLayer_forward(run.layers[p], run.x1, run.x2, SameStreams(p),
                          run.context, rng)

\* the input tensor after the layer at position p has run: at the first
\* position both stream arguments are the input tensor itself, so a write to
\* either argument is a write to it; later positions receive tensors the
\* previous layer created
InputAfter(p, h, args) ==
    IF p # 1 THEN h
    ELSE IF args[1] # h THEN args[1] ELSE args[2]

\* one iteration of `for layer in layers`
LayerForward ==
    /\ run.pc = "fwd"
    /\ run.idx < Depth
    /\ LET p == run.idx + 1
           l == run.layers[p]
           res == LayerCall(p)
       IN /\ rng' = res.rng
          /\ snap' = [snap EXCEPT ![run.kind][l] = res.snap]
          /\ uses' = [uses EXCEPT ![l] = 0]
          /\ run' = [run EXCEPT !.idx = p, !.x1 = res.y1, !.x2 = res.y2,
                                !.hidden_states = InputAfter(p, @, res.args),
                                !.context = res.context,
                                !.fz = Append(@, res.outs),
                                !.fin = Append(@, <<run.x1, run.x2>>),
                                !.fout = Append(@, <<res.y1, res.y2>>),
                                !.fran = Append(@, res.ran),
                                !.fmid = Append(@, res.mid),
                                !.fsnap = Append(@, res.snap),
                                !.fargs = Append(@, res.args),
                                !.fsame = Append(@, SameStreams(p)),
                                !.fmode = Append(@, ForwardModes(run.kind,
                                            LoopMode(run.kind, run.batch.grad_mode)))]
    /\ UNCHANGED <<opt, model, pgrad, ctxs, last, nCalls, nRaised, trainer>>

\* Merge without the division by two
Merge_Sum(a, b) == Add(a, b)

\* the tensor the forward orchestrator returns
Merge(a, b) == Half(Add(a, b))

\* SaveForBackward that also keeps the input of the stack
SaveForBackward_WithInput(r) == <<r.x1, r.x2, r.hidden_states>>

\* the state streams handed to ctx.save_for_backward after the loop
SaveForBackward(r) == <<r.x1, r.x2>>

\* after the loop: ctx.save_for_backward(...); output = (first + second) / 2
ForwardEnd ==
    /\ run.pc = "fwd"
    /\ run.idx = Depth
    /\ ctxs' = ctxs \cup
         {[call |-> run.call, kind |-> run.kind, layers |-> run.layers,
           saved |-> SaveForBackward(run), context |-> run.context,
           output |-> Merge(run.x1, run.x2),
           hidden_states |-> run.hidden_states, batch |-> run.batch,
           fin |-> run.fin, fout |-> run.fout, fran |-> run.fran, fmid |-> run.fmid,
           fsnap |-> run.fsnap, fz |-> run.fz, fmode |-> run.fmode,
           fargs |-> run.fargs, fsame |-> run.fsame,
           pgSame |-> (pgrad = run.pg0)]}
    /\ run' = IdleRun
    /\ UNCHANGED <<opt, model, rng, snap, uses, pgrad, last, nCalls, nRaised, trainer>>

----------------------------------------------------------------------------
(* Backward orchestrators *)

\* ReversibleEncoderFunction.backward / ReversibleDecoderFunction.backward up
\* to the layer loop: grad_output.mul_(0.5) in place, both gradient streams
\* start as that tensor, the saved pair is retrieved from ctx
\* SplitGrad without the halving
SplitGrad_Whole(g) == g

\* the gradient each stream starts the backward loop with
SplitGrad(g) == Half(g)

BackwardBegin ==
    /\ run.pc = "idle"
    /\ \E ctx \in ctxs :
         /\ run' = [pc |-> "bwd", kind |-> ctx.kind, call |-> ctx.call,
                    layers |-> ctx.layers, idx |-> 0, context |-> ctx.context,
                    x1 |-> ctx.saved[1], x2 |-> ctx.saved[2],
                    dx1 |-> SplitGrad(ctx.batch.g), dx2 |-> SplitGrad(ctx.batch.g),
                    grad_context |-> None,
                    context_grad |-> ctx.batch.context_grad,
                    grad_output |-> SplitGrad(ctx.batch.g), g |-> ctx.batch.g,
                    log |-> <<>>, fresh |-> (ctx.call = nCalls),
                    rng0 |-> rng, pg0 |-> pgrad, ctx |-> ctx,
                    phase |-> "bwd",
                    err |-> "", sub_err |-> "", pos |-> 0, stage |-> 0]
         /\ ctxs' = ctxs \ {ctx}
    /\ UNCHANGED <<opt, model, rng, snap, uses, pgrad, last, nCalls, nRaised, trainer>>

\* BackwardPos iterating `layers` instead of `layers[::-1]`
BackwardPos_Forward(n, i) == i + 1

\* the list position visited by iteration i (from 0) of
\* `for idx, layer in enumerate(layers[::-1])` over n layers
BackwardPos(n, i) == n - i

\* Detach that hands out the context tensor itself
Detach_Alias(t) == t

\* context.detach(): a new tensor object on the same values whose gradient
\* accumulator is empty
Detach(t) == [id |-> "detached", val |-> t.val, grad |-> None]

\* the handle on the context the backward loop passes to a layer
ContextHandle ==
    Detach([id |-> "context", val |-> run.context, grad |-> run.context_grad])

\* whether the two gradient arguments of the backward_pass called after idx
\* iterations are one tensor object: `dx1, dx2 = grad_hidden_states,
\* grad_hidden_states` before the loop; every backward_pass returns two
\* tensors of its own
SameGrads(idx) == idx = 0

\* the caller's gradient tensor after a backward_pass has run: the first
\* iteration receives that tensor itself as both gradient arguments
GradOutputAfter(idx, g, gargs) ==
    IF ~SameGrads(idx) THEN g
    ELSE IF gargs[1] # g THEN gargs[1] ELSE gargs[2]

\* the result of backward_pass of the layer at list position p
BackwardCall(p) ==
    LET l == run.layers[p]
        handle == ContextHandle
    IN IF run.kind = "enc"
       THEN EncLayer_backward_pass(l, run.x1, run.x2, run.dx1, run.dx2,
                                   SameGrads(run.idx),
                                   rng, snap["enc"][l], pgrad["enc"][l])
       ELSE DecLayer_backward_pass(l, run.x1, run.x2, run.dx1, run.dx2,
                                   SameGrads(run.idx),
                                   handle.val, handle.grad,
                                   rng, snap["dec"][l], pgrad["dec"][l])

\* Accumulate that empties the accumulator when a layer returns None
Accumulate_ResetOnNone(grad_context, gc) ==
    IF gc = None THEN None
    ELSE IF grad_context = None THEN gc
    ELSE Some(Add(grad_context[1], gc[1]))

\* Accumulate that keeps only the latest layer's contribution
Accumulate_Overwrite(grad_context, gc) == gc

\* if grad_context is None: grad_context = grad_context_
\* elif grad_context_ is not None: grad_context.add_(grad_context_)
Accumulate(grad_context, gc) ==
    IF grad_context = None THEN gc
    ELSE IF gc # None THEN Some(Add(grad_context[1], gc[1]))
    ELSE grad_context

\* one iteration of the backward loop
LayerBackward ==
    /\ run.pc = "bwd"
    /\ run.idx < Depth
    /\ LET p == BackwardPos(Depth, run.idx)
           l == run.layers[p]
           res == BackwardCall(p)
       IN /\ rng' = res.rng
          /\ pgrad' = [pgrad EXCEPT ![run.kind][l] = res.pg]
          /\ snap' = [snap EXCEPT ![run.kind][l] = KeepSnapshots(@)]
          /\ uses' = [uses EXCEPT ![l] = @ + 1]
          /\ run' = [run EXCEPT
                !.idx = @ + 1,
                !.x1 = res.x1, !.x2 = res.x2, !.dx1 = res.dx1, !.dx2 = res.dx2,
                !.grad_context = IF run.kind = "dec" THEN Accumulate(@, res.gc) ELSE @,
                !.context = res.context,
                !.grad_output = GradOutputAfter(run.idx, @, res.gargs),
                !.context_grad = IF run.kind = "dec" /\ ContextHandle.id = "context"
                                 THEN res.cacc.after ELSE @,
                !.log = Append(@, [pos |-> p, layer |-> l,
                                   args |-> <<run.x1, run.x2, run.dx1, run.dx2>>,
                                   ret |-> <<res.x1, res.x2, res.dx1, res.dx2>>,
                                   gc |-> res.gc, mid |-> res.mid,
                                   sargs |-> res.sargs, gargs |-> res.gargs,
                                   same |-> SameGrads(run.idx),
                                   used |-> snap[run.kind][l],
                                   under |-> res.under, mids |-> res.mids,
                                   on |-> res.on, with |-> res.with,
                                   outs |-> res.outs, cacc |-> res.cacc,
                                   modes |-> BackwardModes(run.kind,
                                                 run.ctx.batch.grad_mode),
                                   rngBefore |-> rng, rngAfter |-> res.rng,
                                   pgBefore |-> pgrad[run.kind][l], pgAfter |-> res.pg])]
    /\ UNCHANGED <<opt, model, ctxs, last, nCalls, nRaised, trainer>>

\* GradInput that returns the first stream's gradient only
GradInput_First(dx1, dx2) == dx1

\* grad_hidden_states = first_grad_output + second_grad_output
GradInput(dx1, dx2) == Add(dx1, dx2)

\* train_epoch after a batch whose forward and backward succeeded
\* (`if not oom:`): the counters accumulate, and once enough words are
\* accumulated the optimizer steps and the counters start again
AfterBatch(t, b) ==
    LET words == t.num_accumulated_words + b.tgt_size
        sents == t.num_accumulated_sents + b.size
    IN IF words >= opt.batch_size_update
       THEN [t EXCEPT !.counter = 0, !.num_accumulated_words = 0,
                      !.num_accumulated_sents = 0, !.num_updates = @ + 1]
       ELSE [t EXCEPT !.counter = @ + 1, !.num_accumulated_words = words,
                      !.num_accumulated_sents = sents]

\* after the loop: the gradients the backward orchestrator returns; the
\* training loop then accounts the batch and zeroes the gradients when the
\* optimizer has stepped
BackwardEnd ==
    /\ run.pc = "bwd"
    /\ run.idx = Depth
    /\ last' = [status |-> "done", call |-> run.call, kind |-> run.kind,
                layers |-> run.layers, ctx |-> run.ctx, g |-> run.g, fresh |-> run.fresh,
                grad_output |-> run.grad_output,
                grad_input |-> GradInput(run.dx1, run.dx2),
                grad_context |-> run.grad_context, context |-> run.context,
                context_grad |-> run.context_grad,
                log |-> run.log, rng0 |-> run.rng0, rngEnd |-> rng,
                pg0 |-> run.pg0, pgEnd |-> pgrad]
    /\ trainer' = AfterBatch(trainer, run.ctx.batch)
    /\ pgrad' = IF trainer'.num_updates # trainer.num_updates THEN ZeroGrads ELSE pgrad
    /\ run' = IdleRun
    /\ UNCHANGED <<opt, model, rng, snap, uses, ctxs, nCalls, nRaised>>

----------------------------------------------------------------------------
(* Failures and the training loop *)

StagesOf(kind) == IF kind = "enc" THEN EncStages ELSE DecStages

\* the order in which a layer's forward runs its sub-transforms
ForwardStagesOf(kind) ==
    IF kind = "enc" THEN <<"attn", "ffn">> ELSE <<"attn", "ffn1", "src", "ffn2">>

\* the RuntimeErrors a sub-transform can raise, by what the message contains:
\* 'out of memory', 'get_temporary_buffer', or neither
Errors == {"oom", "tmpbuf", "other"}

\* OnError of a loop that swallows the error and goes on
OnError_Swallow(pc, e) == [pc |-> pc, err |-> ""]

\* an error e raised inside `layer(...)` / `layer.backward_pass(...)`: the
\* orchestrator loops have no try/except, so the call ends with e
OnError(pc, e) == [pc |-> "raised", err |-> e]

\* a sub-transform raises while forward runs stage j of the layer at the next
\* list position: the snapshots of the stages up to j are already stored on
\* the layer and the stages before j have drawn their masks
LayerForwardRaise ==
    /\ run.pc = "fwd"
    /\ run.idx < Depth
    /\ nRaised < MaxRaises
    /\ nRaised' = nRaised + 1
    /\ \E j \in 1 .. Len(ForwardStagesOf(run.kind)), err \in Errors :
         LET p == run.idx + 1
             l == run.layers[p]
             res == LayerCall(p)
             st == ForwardStagesOf(run.kind)
             seeded == {st[i] : i \in 1 .. j}
         IN /\ rng' = res.ran[st[j]]
            /\ snap' = [snap EXCEPT ![run.kind][l] =
                          [k \in KeysOf(run.kind) |->
                             IF k \in seeded THEN res.snap[k] ELSE snap[run.kind][l][k]]]
            /\ run' = [run EXCEPT !.pc = OnError(run.pc, err).pc,
                                  !.err = OnError(run.pc, err).err,
                                  !.sub_err = err, !.pos = p, !.stage = j]
    /\ UNCHANGED <<opt, model, uses, pgrad, ctxs, last, nCalls, trainer>>

\* a sub-transform raises while backward_pass replays stage j of the layer at
\* the next list position: the stages before j have already propagated their
\* gradients into the parameters, and every fork_rng block has been left
LayerBackwardRaise ==
    /\ run.pc = "bwd"
    /\ run.idx < Depth
    /\ nRaised < MaxRaises
    /\ nRaised' = nRaised + 1
    /\ \E j \in 1 .. Len(StagesOf(run.kind)), err \in Errors :
         LET p == BackwardPos(Depth, run.idx)
             l == run.layers[p]
             res == BackwardCall(p)
             st == StagesOf(run.kind)
             done == {st[i] : i \in 1 .. j - 1}
         IN /\ rng' = IF j = 1 THEN rng ELSE res.mids[st[j - 1]]
            /\ pgrad' = [pgrad EXCEPT ![run.kind][l] =
                           [k \in KeysOf(run.kind) |->
                              IF k \in done THEN res.pg[k] ELSE pgrad[run.kind][l][k]]]
            /\ run' = [run EXCEPT !.pc = OnError(run.pc, err).pc,
                                  !.err = OnError(run.pc, err).err,
                                  !.sub_err = err, !.pos = p, !.stage = j]
    /\ UNCHANGED <<opt, model, snap, uses, ctxs, last, nCalls, trainer>>

\* the parameter gradients the out-of-memory handler leaves behind:
\* oom = True; torch.cuda.empty_cache() -- the gradients are not touched
OomHandlerGrads(pg) == pg

\* the training loops that drive the orchestrators
Loops == {"train_epoch", "_async_forward"}

\* Catches of a handler that takes every RuntimeError for an out-of-memory
Catches_Everything(loop, e) == TRUE

\* the condition under which the loop's `except RuntimeError as e` skips the
\* batch instead of executing `raise e`
Catches(loop, e) ==
    IF loop = "train_epoch" THEN e \in {"oom", "tmpbuf"} ELSE e = "oom"

\* self.reset_state(): discards the step in flight
ResetState(pg) == ZeroGrads

\* train_epoch: except RuntimeError as e: if 'out of memory' in str(e) or
\* 'get_temporary_buffer' in str(e): oom = True; ...; the `if not oom:` block
\* is skipped and the loop goes to the next batch
TrainEpochHandleOOM ==
    /\ run.pc = "raised"
    /\ Catches("train_epoch", run.err)
    /\ pgrad' = ResetState(pgrad)
    /\ trainer' = [trainer EXCEPT !.oom = @ + 1]
    /\ last' = [status |-> "skipped", call |-> run.call, kind |-> run.kind,
                layers |-> run.layers, phase |-> run.phase, err |-> run.err,
                before |-> trainer]
    /\ run' = IdleRun
    /\ UNCHANGED <<opt, model, rng, snap, uses, ctxs, nCalls, nRaised>>

\* _async_forward: except RuntimeError as e: if not eval and 'out of memory'
\* in str(e): ... (skip the batch)
HandleOOM ==
    /\ run.pc = "raised"
    /\ Catches("_async_forward", run.err)
    /\ pgrad' = OomHandlerGrads(pgrad)
    /\ last' = [status |-> "oom", call |-> run.call, kind |-> run.kind,
                layers |-> run.layers, pos |-> run.pos, stage |-> run.stage,
                phase |-> run.phase, err |-> run.err,
                pg0 |-> run.pg0, pgAfter |-> pgrad', log |-> run.log]
    /\ run' = IdleRun
    /\ UNCHANGED <<opt, model, rng, snap, uses, ctxs, nCalls, nRaised, trainer>>

\* else: raise e -- any other error ends the training process
Reraise ==
    /\ run.pc = "raised"
    /\ \E loop \in Loops : ~Catches(loop, run.err)
    /\ run' = [pc |-> "crashed", err |-> run.err]
    /\ UNCHANGED <<opt, model, rng, snap, uses, pgrad, ctxs, last, nCalls, nRaised, trainer>>

\* model.zero_grad() / optimizer.zero_grad() between training steps
ZeroGrad ==
    /\ run.pc = "idle"
    /\ ctxs = {}
    /\ pgrad # ZeroGrads
    /\ pgrad' = ZeroGrads
    /\ UNCHANGED <<opt, model, rng, snap, uses, ctxs, run, last, nCalls, nRaised, trainer>>

----------------------------------------------------------------------------

Next ==
    \/ ConstructLayer
    \/ ForwardBegin
    \/ LayerForward
    \/ ForwardEnd
    \/ BackwardBegin
    \/ LayerBackward
    \/ BackwardEnd
    \/ LayerForwardRaise
    \/ LayerBackwardRaise
    \/ TrainEpochHandleOOM
    \/ HandleOOM
    \/ Reraise
    \/ ZeroGrad

Spec == Init /\ [][Next]_vars

----------------------------------------------------------------------------
(* The context-gradient loop of ReversibleDecoderFunction.backward on its    *)
(* own, over every sequence of present and absent layer contributions       *)

\* the variables the stand-alone loops below do not touch
others == <<opt, model, rng, snap, uses, pgrad, ctxs, last, trainer, nCalls, nRaised>>

\* no stack has been built and no batch processed
OthersIdle ==
    /\ opt = [cuda |-> FALSE, dropout |-> FALSE, ignore_source |-> FALSE,
              batch_size_update |-> 2]
    /\ model = [kind |-> "dec", layers |-> <<1>>, status |-> "new",
                made |-> {}, subs |-> [l \in LayerIds |-> {}]]
    /\ rng = [cpu |-> 0, gpu |-> 0]
    /\ snap = NoSnaps
    /\ uses = [l \in LayerIds |-> 0]
    /\ pgrad = ZeroGrads
    /\ ctxs = {}
    /\ last = [status |-> "none"]
    /\ trainer = [counter |-> 0, num_accumulated_words |-> 0,
                  num_accumulated_sents |-> 0, num_updates |-> 0, oom |-> 0]
    /\ nCalls = 0
    /\ nRaised = 0

\* what the layers return as grad_context_, in the order the loop visits them
Contributions ==
    UNION {[1 .. n -> {None} \cup {Some(v) : v \in Val}] : n \in 0 .. MaxDepth}

\* grad_context = None before the loop
AccInit ==
    /\ OthersIdle
    /\ run \in {[pc |-> "acc", contribs |-> cs, idx |-> 0, grad_context |-> None,
                  hist |-> <<>>] : cs \in Contributions}

\* one iteration: if grad_context is None: ... elif grad_context_ is not None: ...
AccLayer ==
    /\ run.pc = "acc"
    /\ run.idx < Len(run.contribs)
    /\ LET new == Accumulate(run.grad_context, run.contribs[run.idx + 1])
       IN run' = [run EXCEPT !.idx = @ + 1, !.grad_context = new,
                             !.hist = Append(@, new)]
    /\ UNCHANGED others

\* return None, grad_input, None, grad_context, ...
AccReturn ==
    /\ run.pc = "acc"
    /\ run.idx = Len(run.contribs)
    /\ run' = [run EXCEPT !.pc = "returned"]
    /\ UNCHANGED others

AccNext ==
    \/ AccLayer
    \/ AccReturn

AccSpec == AccInit /\ [][AccNext]_vars

----------------------------------------------------------------------------
(* DynamicLossScaler on its own: construction, then update_scale calls as     *)
(* train_epoch makes them after each fp16 gradient norm                       *)

\* loss_scale is a float; it is kept as an exact fraction
ScaleDiv(s, f) ==
    IF s.num % f = 0 THEN [num |-> s.num \div f, den |-> s.den]
    ELSE [num |-> s.num, den |-> s.den * f]

ScaleMul(s, f) ==
    IF s.den % f = 0 THEN [num |-> s.num, den |-> s.den \div f]
    ELSE [num |-> s.num * f, den |-> s.den]

\* the gradient norms train_epoch can compute
GradNorms == {"finite", "inf", "nan"}

\* DynamicLossScaler.has_overflow: inf, or a value that differs from itself
has_overflow(grad_norm) == grad_norm = "inf" \/ grad_norm = "nan"

\* DynamicLossScaler.update_scale
update_scale(sc, overflow) ==
    LET it == sc.iter + 1
    IN IF overflow
       THEN [sc EXCEPT !.iter = it,
                       !.loss_scale = ScaleDiv(@, sc.scale_factor),
                       !.last_overflow_iter = it]
       ELSE IF (it - sc.last_overflow_iter) % sc.scale_window = 0
       THEN [sc EXCEPT !.iter = it, !.loss_scale = ScaleMul(@, sc.scale_factor)]
       ELSE [sc EXCEPT !.iter = it]

\* DynamicLossScaler.__init__ with the default init_scale and scale_factor and
\* a scale_window of the caller's choice
ScalerInit ==
    /\ OthersIdle
    /\ run \in {[pc |-> "scaler",
                  scaler |-> [loss_scale |-> [num |-> 2 ^ 7, den |-> 1],
                              scale_factor |-> 2, scale_window |-> w,
                              iter |-> 0, last_overflow_iter |-> -1],
                  calls |-> 0, overflow |-> FALSE, clean |-> 0]
                 : w \in 1 .. MaxWindow}

\* overflow = DynamicLossScaler.has_overflow(grad_norm);
\* self.scaler.update_scale(overflow); `clean` counts the overflow-free calls
\* in a row up to and including this one
UpdateScale ==
    /\ run.pc = "scaler"
    /\ run.calls < MaxUpdates
    /\ \E grad_norm \in GradNorms :
         LET overflow == has_overflow(grad_norm)
         IN run' = [run EXCEPT !.scaler = update_scale(@, overflow),
                               !.calls = @ + 1,
                               !.overflow = overflow,
                               !.clean = IF overflow THEN 0 ELSE @ + 1]
    /\ UNCHANGED others

ScalerNext == UpdateScale

ScalerSpec == ScalerInit /\ [][ScalerNext]_vars

----------------------------------------------------------------------------
(* _all_reduce_and_rescale_grads on its own, for every list of gradients,    *)
(* buffer_size and positive grad_denom within the bounds                     *)

\* the positive denominators tried, as fractions: one half, one and two
GradDenoms == {[num |-> 1, den |-> 2], [num |-> 1, den |-> 1], [num |-> 2, den |-> 1]}

\* grad_denom > 1
GreaterThanOne(dn) == dn.num > dn.den

\* t.div_(grad_denom) on a tensor value
DivBy(v, dn) == Mul(Mul(v, dn.den), CHOOSE x \in Val : Mul(x, dn.num) = 1)

\* a gradient of this replica: its size in bytes (numel * element_size), its
\* values, and the sum of the same gradient on the other replicas
Grads == [sz : 1 .. MaxGradSize, data : {1, 2}, peers : {2}]

GradLists == UNION {[1 .. n -> Grads] : n \in 0 .. MaxGrads}

\* nccl.all_reduce on a tensor holding v: the sum over all replicas
AllReduce(v, g) == Add(v, g.peers)

\* all_reduce_buffer: the gradients in the buffer are copied into buffer_t,
\* all-reduced together, divided when grad_denom > 1, and copied back
all_reduce_buffer(r) ==
    [r EXCEPT
       !.cur = [i \in DOMAIN @ |->
                  IF \E j \in 1 .. Len(r.buffer) : r.buffer[j] = i
                  THEN IF GreaterThanOne(r.grad_denom)
                       THEN DivBy(AllReduce(@[i], r.grads[i]), r.grad_denom)
                       ELSE AllReduce(@[i], r.grads[i])
                  ELSE @[i]],
       !.count = [i \in DOMAIN @ |->
                  IF \E j \in 1 .. Len(r.buffer) : r.buffer[j] = i
                  THEN @[i] + 1 ELSE @[i]],
       !.flushes = Append(@, [filled |-> r.filled, buffer |-> r.buffer])]

\* on entry: grads collected, buffer = [], filled = 0
ReduceInit ==
    /\ OthersIdle
    /\ run \in {[pc |-> "entered", grads |-> gs, buffer_size |-> b, grad_denom |-> dn,
                  idx |-> 0, buffer |-> <<>>, filled |-> 0,
                  cur |-> [i \in 1 .. Len(gs) |-> gs[i].data],
                  count |-> [i \in 1 .. Len(gs) |-> 0],
                  path |-> [i \in 1 .. Len(gs) |-> "none"],
                  flushes |-> <<>>, err |-> ""]
                 : gs \in GradLists, b \in 1 .. MaxGradSize, dn \in GradDenoms}

\* buffer_t = grads[0].new(...).zero_(): an empty list has no grads[0]
AllocateBuffer ==
    /\ run.pc = "entered"
    /\ run' = IF Len(run.grads) = 0
              THEN [run EXCEPT !.pc = "raised", !.err = "IndexError"]
              ELSE [run EXCEPT !.pc = "loop"]
    /\ UNCHANGED others

\* if sz > buffer_size: nccl.all_reduce(g); g.div_(grad_denom)
ReduceDirect ==
    /\ run.pc = "loop" /\ run.idx < Len(run.grads)
    /\ LET i == run.idx + 1
           g == run.grads[i]
       IN /\ g.sz > run.buffer_size
          /\ run' = [run EXCEPT !.idx = i,
                                !.cur[i] = DivBy(AllReduce(@, g), run.grad_denom),
                                !.count[i] = @ + 1,
                                !.path[i] = "direct"]
    /\ UNCHANGED others

\* elif filled + sz > buffer_size: all_reduce_buffer(); buffer = [g]; filled = sz
ReduceFlushAndReplace ==
    /\ run.pc = "loop" /\ run.idx < Len(run.grads)
    /\ LET i == run.idx + 1
           g == run.grads[i]
       IN /\ ~(g.sz > run.buffer_size)
          /\ run.filled + g.sz > run.buffer_size
          /\ run' = [all_reduce_buffer(run) EXCEPT !.idx = i, !.buffer = <<i>>,
                                                   !.filled = g.sz,
                                                   !.path[i] = "buffer"]
    /\ UNCHANGED others

\* else: buffer.append(g); filled += sz
ReduceAppend ==
    /\ run.pc = "loop" /\ run.idx < Len(run.grads)
    /\ LET i == run.idx + 1
           g == run.grads[i]
       IN /\ ~(g.sz > run.buffer_size)
          /\ ~(run.filled + g.sz > run.buffer_size)
          /\ run' = [run EXCEPT !.idx = i, !.buffer = Append(@, i),
                                !.filled = @ + g.sz, !.path[i] = "buffer"]
    /\ UNCHANGED others

\* after the loop: if len(buffer) > 0: all_reduce_buffer()
ReduceFinish ==
    /\ run.pc = "loop" /\ run.idx = Len(run.grads)
    /\ run' = [(IF Len(run.buffer) > 0 THEN all_reduce_buffer(run) ELSE run)
                 EXCEPT !.pc = "done"]
    /\ UNCHANGED others

ReduceNext ==
    \/ AllocateBuffer
    \/ ReduceDirect
    \/ ReduceFlushAndReplace
    \/ ReduceAppend
    \/ ReduceFinish

ReduceSpec == ReduceInit /\ [][ReduceNext]_vars

----------------------------------------------------------------------------
(* Properties *)

Distinct(layers) == \A i, j \in 1 .. Len(layers) : i # j => layers[i] # layers[j]

\* r is a backward call that directly follows its own forward call (no other
\* forward call was issued in between) over a stack of distinct layer objects
ForwardThenBackward(r) == r.fresh /\ Distinct(r.layers)

NaiveEncLayer(l, xin, yout, ran, a1, a2) ==
    LET dx1 == Add(a1, GradX(l, "ffn", yout[1], 0, DropMask(ran.ffn), a2))
        dx2 == Add(a2, GradX(l, "attn", xin[2], 0, DropMask(ran.attn), dx1))
    IN <<dx1, dx2>>

\* whole-activation backpropagation through one decoder layer
NaiveDecLayer(l, xin, zmid, yout, c, ran, a1, a2) ==
    LET dz1 == Add(a1, GradX(l, "ffn2", yout[1], 0, DropMask(ran.ffn2), a2))
        dz2 == Add(a2, GradX(l, "src", zmid[2], c, DropMask(ran.src), dz1))
        dx1 == Add(dz1, GradX(l, "ffn1", zmid[1], 0, DropMask(ran.ffn1), dz2))
        dx2 == Add(dz2, GradX(l, "attn", xin[2], 0, DropMask(ran.attn), dx1))
    IN <<dx1, dx2>>

RECURSIVE NaiveBack(_, _, _, _)
NaiveBack(ctx, k, a1, a2) ==
    IF k = 0 THEN <<a1, a2>>
    ELSE LET d == IF ctx.kind = "enc"
                  THEN NaiveEncLayer(ctx.layers[k], ctx.fin[k], ctx.fout[k],
                                     ctx.fran[k], a1, a2)
                  ELSE NaiveDecLayer(ctx.layers[k], ctx.fin[k], ctx.fmid[k], ctx.fout[k],
                                     ctx.context, ctx.fran[k], a1, a2)
         IN NaiveBack(ctx, k - 1, d[1], d[2])

\* chain-rule gradient of merged_output = (y1 + y2) / 2 with respect to the
\* initial state, for the incoming gradient g
NaiveGrad(ctx, g) ==
    LET d == NaiveBack(ctx, Len(ctx.layers), Half(g), Half(g))
    IN Add(d[1], d[2])

\* C3 (gradient equivalence): with dropout probability 0, the gradient on the
\* initial state returned by backward equals the chain-rule gradient of
\* (y1 + y2) / 2 obtained by whole-activation backpropagation through the same
\* sub-transforms in the same order.
C3_GradientEquivalence ==
    (last.status = "done" /\ ~opt.dropout) =>
        last.grad_input = NaiveGrad(last.ctx, last.g)

\* a finished backward over two layers without dropout whose input gradient
\* differs from the incoming gradient
C3_Witness ==
    /\ last.status = "done" /\ ~opt.dropout
    /\ Len(last.layers) = 2
    /\ last.grad_input # last.g
    /\ last.grad_input # 0

\* C4 (snapshot matching over any call sequence): every sub-transform replay
\* of a backward call runs under the generator state captured when the
\* forward call it corresponds to ran that sub-transform of that layer.
C4_SnapshotMatching ==
    (run.pc = "bwd" /\ Distinct(run.layers)) =>
        \A i \in 1 .. Len(run.log) : \A k \in KeysOf(run.kind) :
            run.log[i].under[k] = run.ctx.fran[run.log[i].pos][k]

RECURSIVE SumGc(_, _)
SumGc(log, i) == IF i = 0 THEN 0 ELSE Add(SumGc(log, i - 1), log[i].gc[1])

\* C5 (context gradient accumulation): the context gradient returned by the
\* decoder backward equals the sum over the N layers of the context gradient
\* each layer's backward_pass produced.
C5_ContextGradientSum ==
    (last.status = "done" /\ last.kind = "dec") =>
        last.grad_context = Some(SumGc(last.log, Len(last.log)))

\* a finished two-layer decoder backward where both layers contributed
C5_Witness ==
    /\ last.status = "done" /\ last.kind = "dec"
    /\ Len(last.log) = 2
    /\ last.log[1].gc # Some(0) /\ last.log[2].gc # Some(0)
    /\ last.grad_context # last.log[1].gc /\ last.grad_context # last.log[2].gc

\* C6 (merge invariant): the tensor returned by the forward orchestrator is
\* (stream1 + stream2) / 2 of the last layer's two outputs, which are the
\* pair saved for backward.
C6_MergeInvariant ==
    \A ctx \in ctxs :
        LET n == Len(ctx.layers)
        IN /\ n >= 1
           /\ <<ctx.saved[1], ctx.saved[2]>> = ctx.fout[n]
           /\ Add(ctx.output, ctx.output) = Add(ctx.fout[n][1], ctx.fout[n][2])

\* a forward over two layers has returned, with streams that differ
C6_Witness ==
    \E ctx \in ctxs :
        /\ Len(ctx.layers) = 2
        /\ ctx.saved[1] # ctx.saved[2]
        /\ ctx.output # ctx.saved[1] /\ ctx.output # ctx.hidden_states

\* C7 (strict reverse order): one backward call invokes backward_pass once per
\* list position in the order N, N-1, ..., 1, hands position k exactly what
\* position k+1 returned, and starts only after forward ran all N layers.
C7_StrictReverseOrder ==
    /\ run.pc = "bwd" =>
        /\ Len(run.ctx.fout) = Depth
        /\ Len(run.log) = run.idx
        /\ \A i \in 1 .. Len(run.log) :
            /\ run.log[i].pos = Depth - i + 1
            /\ run.log[i].layer = run.layers[run.log[i].pos]
            /\ i = 1 => run.log[i].args[1] = run.ctx.saved[1] /\ run.log[i].args[2] = run.ctx.saved[2]
            /\ i > 1 => run.log[i].args = run.log[i - 1].ret
    /\ last.status = "done" =>
        /\ Len(last.log) = Len(last.layers)
        /\ {last.log[i].pos : i \in 1 .. Len(last.log)} = 1 .. Len(last.layers)

\* both layers of a two-layer stack of distinct layers have run backward_pass
C7_Witness ==
    /\ run.pc = "bwd" /\ Depth = 2 /\ Len(run.log) = 2
    /\ run.layers[1] # run.layers[2]
    /\ run.log[2].args # run.log[1].args

\* C8 (scoped RNG restore): every replay saves the global generator state,
\* installs the snapshot, runs and restores, so the global state after each
\* backward_pass and after the whole backward call equals the state before it.
C8_ScopedRngRestore ==
    /\ (run.pc \in {"bwd", "raised"} /\ run.phase = "bwd") =>
        /\ rng = run.rng0
        /\ \A i \in 1 .. Len(run.log) :
            /\ run.log[i].rngAfter = run.log[i].rngBefore
            /\ \A k \in KeysOf(run.kind) : run.log[i].mids[k] = run.log[i].rngBefore
    /\ last.status = "done" => last.rngEnd = last.rng0

\* a backward_pass has replayed under a snapshot other than the global state
C8_Witness ==
    /\ run.pc = "bwd" /\ opt.dropout /\ Len(run.log) >= 1
    /\ \A k \in KeysOf(run.kind) : run.log[1].under[k] # run.log[1].rngBefore

C10_StepAtomicity ==
    (last.status = "oom" /\ Len(last.log) >= 1 /\ Distinct(last.layers)) =>
        last.pgAfter = last.pg0

\* C11: a decoder coupling layer built with opt.ignore_source set fails in its
\* constructor before any of its sub-transforms is created, so every decoder
\* layer object that exists has a cross-attention sub-transform
C11_IgnoreSourceRejected ==
    /\ (model.kind = "dec" /\ opt.ignore_source) =>
          /\ model.made = {}
          /\ model.status # "built"
          /\ \A l \in LayerIds : model.subs[l] = {}
    /\ model.status = "failed" => (model.kind = "dec" /\ opt.ignore_source)
    /\ model.kind = "dec" => \A l \in model.made : "src" \in model.subs[l]

C11_Witness ==
    /\ model.kind = "dec" /\ opt.ignore_source
    /\ model.status = "failed"

\* C12: a forward orchestrator leaves the tensor it was given holding the
\* values it held on entry, although both streams start as that tensor, and
\* leaves every parameter gradient as it was
C12_ForwardFrame ==
    /\ run.pc = "fwd" =>
          /\ run.hidden_states = run.batch.h
          /\ pgrad = run.pg0
    /\ \A ctx \in ctxs :
          /\ ctx.hidden_states = ctx.batch.h
          /\ ctx.pgSame

C12_Witness ==
    /\ pgrad # ZeroGrads
    /\ \E ctx \in ctxs :
          /\ Len(ctx.layers) = 2
          /\ ctx.fout[1][1] # ctx.batch.h /\ ctx.fout[1][2] # ctx.batch.h
          /\ ctx.output # ctx.batch.h

\* C13: whatever the number of layers, the state streams a forward keeps for
\* its backward are one pair, the outputs of the last layer; the streams of
\* the layers before it are not among them
C13_DepthIndependentRetention ==
    \A ctx \in ctxs :
        LET n == Len(ctx.layers)
        IN /\ Len(ctx.saved) = 2
           /\ ctx.saved = ctx.fout[n]

C13_Witness ==
    \E ctx \in ctxs :
        /\ Len(ctx.layers) = MaxDepth
        /\ ctx.fout[1] # ctx.fout[MaxDepth]
        /\ ctx.saved # ctx.fin[1]
        /\ ctx.saved = ctx.fout[MaxDepth]

\* the input sub-transform k of the layer at position p received in the
\* forward that ctx belongs to
ForwardInput(ctx, p, k) ==
    CASE k = "attn" -> ctx.fin[p][2]
      [] k = "ffn" -> ctx.fout[p][1]
      [] k = "ffn1" -> ctx.fmid[p][1]
      [] k = "src" -> ctx.fmid[p][2]
      [] k = "ffn2" -> ctx.fout[p][1]

\* C14: a sub-transform run again on the same input with the snapshot captured
\* before its first run restored produces the same output; in a backward that
\* follows its forward every replayed output equals the forward's
C14_DropoutDeterminism ==
    run.pc = "bwd" =>
        \A i \in 1 .. Len(run.log) :
            LET e == run.log[i]
            IN \A k \in KeysOf(run.kind) :
                 /\ (e.used[k] = run.ctx.fsnap[e.pos][k]
                       /\ e.on[k] = ForwardInput(run.ctx, e.pos, k))
                      => e.outs[k] = run.ctx.fz[e.pos][k]
                 /\ ForwardThenBackward(run) => e.outs[k] = run.ctx.fz[e.pos][k]

C14_Witness ==
    /\ run.pc = "bwd" /\ opt.dropout /\ opt.cuda
    /\ ForwardThenBackward(run)
    /\ Len(run.log) = 2
    /\ rng.gpu # run.log[1].under[CHOOSE k \in KeysOf(run.kind) : TRUE].gpu
    /\ \E k \in KeysOf(run.kind) :
          /\ run.log[2].outs[k] = run.ctx.fz[1][k]
          /\ run.log[2].outs[k] # Fn(run.log[2].layer, k, run.log[2].on[k],
                                      run.context, DropMask(run.log[2].rngBefore))

\* C15: when the forward loop over N layers has finished, the snapshots kept
\* for the backward are N per sub-transform kind, the one created at each
\* list position (also for a layer object that occupies several positions),
\* and the backward consumes them last-created first
C15_StackSnapshots ==
    /\ (run.pc = "fwd" /\ run.idx = Depth) =>
          \A p \in 1 .. Depth : snap[run.kind][run.layers[p]] = run.fsnap[p]
    /\ run.pc = "bwd" =>
          \A i \in 1 .. Len(run.log) : run.log[i].pos = Depth - i + 1

\* C16: the backward orchestrator hands the last layer's backward_pass
\* dy1 = dy2 = g/2 for the incoming gradient g, and returns as the gradient
\* on the initial state the sum dx1 + dx2 the first layer's backward_pass
\* returned
C16_EvenGradientSplit ==
    /\ (run.pc = "bwd" /\ Len(run.log) >= 1) =>
          LET e == run.log[1]
          IN /\ e.pos = Depth
             /\ e.args[3] = e.args[4]
             /\ Add(e.args[3], e.args[3]) = run.g
    /\ last.status = "done" =>
          LET e == last.log[Len(last.log)]
          IN /\ e.pos = 1
             /\ last.grad_input = Add(e.ret[3], e.ret[4])

C16_Witness ==
    /\ last.status = "done" /\ Len(last.layers) = 2
    /\ last.log[1].args[3] # last.g
    /\ last.log[2].ret[3] # last.log[2].ret[4]
    /\ last.log[2].ret[4] # 0
    /\ last.grad_input # last.log[1].args[3]

\* C17: the context tensor shared by the layers of a decoder stack holds the
\* same values after any forward and any backward as before it; the backward
\* writes gradient accumulators only
C17_ContextReadOnly ==
    /\ (run.pc = "fwd" /\ run.kind = "dec") => run.context = run.batch.c
    /\ (run.pc = "bwd" /\ run.kind = "dec") => run.context = run.ctx.batch.c
    /\ \A ctx \in ctxs : ctx.kind = "dec" => ctx.context = ctx.batch.c
    /\ (last.status = "done" /\ last.kind = "dec") => last.context = last.ctx.batch.c

C17_Witness ==
    /\ last.status = "done" /\ last.kind = "dec" /\ Len(last.layers) = 2
    /\ last.context = last.ctx.batch.c
    /\ last.grad_context # None
    /\ last.grad_context # Some(0)
    /\ last.log[1].gc # Some(0)

\* C18: when a sub-transform of some layer raises inside the forward or the
\* backward loop, the orchestrator call ends with that very error: no further
\* layer runs, no output or gradient is returned and nothing is retried
C18_ErrorPropagation ==
    [][/\ run.pc \in {"fwd", "bwd"} => run.sub_err = ""
       /\ run.pc = "raised" =>
            /\ run.err = run.sub_err
            /\ run.err \in Errors
            /\ run'.pc \in {"idle", "crashed"}
            /\ uses' = uses /\ snap' = snap /\ rng' = rng
            /\ ctxs' = ctxs
            /\ \A ctx \in ctxs : ctx.call # run.call
            /\ last' # last => last'.status # "done"
            /\ run'.pc = "crashed" => run'.err = run.err]_vars

C18_Witness ==
    /\ run.pc = "raised"
    /\ Depth = 2 /\ run.idx = 1
    /\ run.stage >= 2
    /\ run.err = "other"

\* the step of a training loop that skips the failed batch: the loop is ready
\* for the next batch, nothing was accumulated and the optimizer did not step
BatchSkipped ==
    /\ run'.pc = "idle"
    /\ trainer'.counter = trainer.counter
    /\ trainer'.num_accumulated_words = trainer.num_accumulated_words
    /\ trainer'.num_accumulated_sents = trainer.num_accumulated_sents
    /\ trainer'.num_updates = trainer.num_updates

\* the step that re-raises the error unchanged
Reraised == run'.pc = "crashed" /\ run'.err = run.err

\* C19: at the training loop a RuntimeError whose message contains 'out of
\* memory', raised during a batch's forward or backward, is caught and the
\* batch skipped; any other RuntimeError is re-raised unchanged
C19_OnlyOutOfMemorySkips ==
    [][run.pc = "raised" =>
         IF run.err = "oom" THEN BatchSkipped ELSE Reraised]_vars

\* C19 (amended): 'out of memory' is caught and the batch skipped by both
\* loops, 'get_temporary_buffer' is caught and the batch skipped by
\* train_epoch and re-raised by _async_forward, and every other RuntimeError
\* is re-raised unchanged
C19_RecoverableErrorsSkip ==
    [][run.pc = "raised" =>
         /\ BatchSkipped \/ Reraised
         /\ run.err = "oom" => BatchSkipped
         /\ run.err = "other" => Reraised
         /\ (run.err = "tmpbuf" /\ BatchSkipped) => last'.status = "skipped"]_vars

C19_Witness ==
    /\ run.pc = "idle"
    /\ last.status = "skipped" /\ last.err = "tmpbuf"
    /\ trainer.oom = 1
    /\ trainer.num_accumulated_words = 1 /\ trainer.counter = 1
    /\ trainer = [last.before EXCEPT !.oom = 1]

\* the generator state st is the one snapshot sn installs
InstalledFrom(st, sn) ==
    /\ st.cpu = sn.cpu
    /\ opt.cuda => st.gpu = sn.gpu[1]

\* C20: the encoder layer's backward_pass first replays G on y1 under the
\* feed-forward snapshot propagating dy2, sets x2 = y2 - G(y1) and
\* dx1 = dy1 + dG/dy1, then replays F on the reconstructed x2 under the
\* attention snapshot propagating dx1, and sets x1 = y1 - F(x2) and
\* dx2 = dy2 + dF/dx2
C20_EncoderBackwardOrder ==
    (run.pc = "bwd" /\ run.kind = "enc") =>
        \A i \in 1 .. Len(run.log) :
            LET e == run.log[i]
                l == e.layer
                y1 == e.args[1]
                y2 == e.args[2]
                dy1 == e.args[3]
                dy2 == e.args[4]
                mG == DropMask(e.under.ffn)
                mF == DropMask(e.under.attn)
                x2 == Sub(y2, Fn(l, "ffn", y1, 0, mG))
                dx1 == Add(dy1, GradX(l, "ffn", y1, 0, mG, dy2))
            IN /\ e.used.ffn.set => InstalledFrom(e.under.ffn, e.used.ffn)
               /\ e.on.ffn = y1 /\ e.with.ffn = dy2
               /\ e.outs.ffn = Fn(l, "ffn", y1, 0, mG)
               /\ e.ret[2] = x2
               /\ e.ret[3] = dx1
               /\ e.used.attn.set => InstalledFrom(e.under.attn, e.used.attn)
               /\ e.on.attn = x2 /\ e.with.attn = dx1
               /\ e.outs.attn = Fn(l, "attn", x2, 0, mF)
               /\ e.ret[1] = Sub(y1, Fn(l, "attn", x2, 0, mF))
               /\ e.ret[4] = Add(dy2, GradX(l, "attn", x2, 0, mF, dx1))

C20_Witness ==
    /\ run.pc = "bwd" /\ run.kind = "enc" /\ opt.dropout
    /\ Len(run.log) >= 1
    /\ LET e == run.log[1]
       IN /\ e.ret[2] # e.args[2]
          /\ e.ret[3] # e.args[3]
          /\ e.outs.attn # Fn(e.layer, "attn", e.args[2], 0, DropMask(e.under.attn))
          /\ e.under.attn # e.under.ffn
          /\ e.ret[4] # e.args[4]

\* C21: the decoder layer's backward_pass runs the stages G2, H, G1, F in that
\* order, under the ffn2, src-attention, ffn1 and self-attention snapshots;
\* each replay takes the state the previous stage reconstructed and
\* propagates the gradient accumulated so far (dy2, dz1, dz2, dx1)
C21_DecoderBackwardOrder ==
    (run.pc = "bwd" /\ run.kind = "dec") =>
        \A i \in 1 .. Len(run.log) :
            LET e == run.log[i]
                l == e.layer
                c == run.ctx.context
                y1 == e.args[1]
                y2 == e.args[2]
                dy1 == e.args[3]
                dy2 == e.args[4]
                mK == DropMask(e.under.ffn2)
                mH == DropMask(e.under.src)
                mG == DropMask(e.under.ffn1)
                mF == DropMask(e.under.attn)
                z2 == Sub(y2, Fn(l, "ffn2", y1, 0, mK))
                dz1 == Add(dy1, GradX(l, "ffn2", y1, 0, mK, dy2))
                z1 == Sub(y1, Fn(l, "src", z2, c, mH))
                dz2 == Add(dy2, GradX(l, "src", z2, c, mH, dz1))
                x2 == Sub(z2, Fn(l, "ffn1", z1, 0, mG))
                dx1 == Add(dz1, GradX(l, "ffn1", z1, 0, mG, dz2))
            IN /\ \A k \in DecKeys :
                    e.used[k].set => InstalledFrom(e.under[k], e.used[k])
               /\ e.on.ffn2 = y1 /\ e.with.ffn2 = dy2
               /\ e.on.src = z2 /\ e.with.src = dz1
               /\ e.on.ffn1 = z1 /\ e.with.ffn1 = dz2
               /\ e.on.attn = x2 /\ e.with.attn = dx1
               /\ e.mid = <<z1, z2>>
               /\ e.ret[2] = x2
               /\ e.ret[3] = dx1
               /\ e.ret[1] = Sub(z1, Fn(l, "attn", x2, 0, mF))
               /\ e.ret[4] = Add(dz2, GradX(l, "attn", x2, 0, mF, dx1))

C21_Witness ==
    /\ run.pc = "bwd" /\ run.kind = "dec" /\ opt.dropout
    /\ Len(run.log) >= 1
    /\ LET e == run.log[1]
       IN /\ e.under.src # e.under.ffn1
          /\ e.with.src # e.with.ffn2
          /\ e.with.ffn1 # e.with.src
          /\ e.on.attn # e.args[2]
          /\ e.on.src # e.args[2]

\* snapshot sn holds the generator state st
Captures(sn, st) ==
    /\ sn.set
    /\ sn.cpu = st.cpu
    /\ opt.cuda => sn.gpu = Some(st.gpu)

\* C22: in a layer's forward the snapshot stored for a sub-transform is the
\* global generator state at the instant that sub-transform starts, after
\* every earlier sub-transform of this and the earlier layers has drawn and
\* before it draws itself; no two sub-transforms of one forward share a
\* snapshot slot
C22_SnapshotCapturePoint ==
    run.pc = "fwd" =>
        LET st == ForwardStagesOf(run.kind)
            n == Len(st)
        IN /\ \A p \in 1 .. run.idx :
                /\ \A k \in KeysOf(run.kind) : Captures(run.fsnap[p][k], run.fran[p][k])
                /\ run.fran[p][st[1]] =
                      IF p = 1 THEN run.rng0 ELSE Draw(run.fran[p - 1][st[n]])
                /\ \A j \in 1 .. n - 1 : run.fran[p][st[j + 1]] = Draw(run.fran[p][st[j]])
           /\ run.idx >= 1 =>
                /\ rng = Draw(run.fran[run.idx][st[n]])
                /\ \A k \in KeysOf(run.kind) :
                     Captures(snap[run.kind][run.layers[run.idx]][k],
                              run.fran[run.idx][k])
                /\ opt.dropout =>
                     \A i, j \in 1 .. n :
                        i # j => run.fsnap[run.idx][st[i]] # run.fsnap[run.idx][st[j]]

C22_Witness ==
    /\ run.pc = "fwd" /\ run.idx = 2
    /\ opt.dropout /\ opt.cuda
    /\ run.rng0.gpu > 0
    /\ run.fsnap[2]["attn"].gpu # run.fsnap[1]["attn"].gpu
    /\ snap[run.kind][run.layers[2]] = run.fsnap[2]

\* C23: every decoder layer's backward_pass gets a detached handle of its own
\* on the context whose gradient accumulator is empty before stage H; the
\* gradient is taken and the accumulator cleared right after stage H, so the
\* value a layer returns is that layer's contribution alone
C23_ContextGradientIsolation ==
    /\ (run.pc = "bwd" /\ run.kind = "dec") =>
          /\ run.context_grad = run.ctx.batch.context_grad
          /\ \A i \in 1 .. Len(run.log) :
                LET e == run.log[i]
                IN /\ e.cacc.before = None
                   /\ e.cacc.after = None
                   /\ e.gc = Some(GradC(e.layer, "src", e.on.src, run.ctx.context,
                                         DropMask(e.under.src), e.with.src))
    /\ (last.status = "done" /\ last.kind = "dec") =>
          last.context_grad = last.ctx.batch.context_grad

C23_Witness ==
    /\ run.pc = "bwd" /\ run.kind = "dec"
    /\ Len(run.log) = 2
    /\ run.context_grad # None
    /\ run.log[1].gc # Some(0)
    /\ run.log[2].gc # run.log[1].gc
    /\ run.log[2].gc # run.grad_context

RECURSIVE SumPresent(_, _)
SumPresent(cs, i) ==
    IF i = 0 THEN 0
    ELSE Add(SumPresent(cs, i - 1), IF cs[i] = None THEN 0 ELSE cs[i][1])

\* C24: the context-gradient accumulator starts empty; a layer that returns no
\* context gradient neither changes nor resets it; the first present
\* contribution initialises it and each later one is added; what is returned
\* is empty exactly when no layer returned a contribution
C24_AbsentContributions ==
    run.pc \in {"acc", "returned"} =>
        LET present == {i \in 1 .. run.idx : run.contribs[i] # None}
            before(i) == IF i = 1 THEN None ELSE run.hist[i - 1]
        IN /\ run.idx = 0 => run.grad_context = None
           /\ run.grad_context = None <=> present = {}
           /\ present # {} =>
                run.grad_context = Some(SumPresent(run.contribs, run.idx))
           /\ \A i \in 1 .. run.idx :
                /\ run.contribs[i] = None => run.hist[i] = before(i)
                /\ (run.contribs[i] # None /\ before(i) = None) =>
                      run.hist[i] = run.contribs[i]
                /\ (run.contribs[i] # None /\ before(i) # None) =>
                      run.hist[i] = Some(Add(before(i)[1], run.contribs[i][1]))

C24_Witness ==
    /\ run.pc = "returned"
    /\ Len(run.contribs) = 2
    /\ run.contribs[1] = Some(3)
    /\ run.contribs[2] = None
    /\ run.grad_context = Some(3)

\* C25: every sub-transform call made while a forward orchestrator runs
\* executes with gradient tracking disabled; in every backward_pass each
\* replay executes with tracking enabled and the inversion and gradient-sum
\* step after it with tracking disabled, whatever mode the caller is in
C25_GradTrackingMode ==
    /\ (run.pc \in {"fwd", "raised"} /\ run.phase = "fwd") =>
          \A p \in 1 .. Len(run.fmode) :
            \A k \in KeysOf(run.kind) : run.fmode[p][k] = FALSE
    /\ \A ctx \in ctxs :
          \A p \in 1 .. Len(ctx.fmode) :
            \A k \in KeysOf(ctx.kind) : ctx.fmode[p][k] = FALSE
    /\ (run.pc \in {"bwd", "raised"} /\ run.phase = "bwd") =>
          \A i \in 1 .. Len(run.log) :
            \A k \in KeysOf(run.kind) :
              /\ run.log[i].modes[k].replay = TRUE
              /\ run.log[i].modes[k].invert = FALSE

\* a caller that has tracking on ran a whole stack forward, and the whole
\* backward of that call has run
C25_Witness ==
    /\ run.pc = "bwd" /\ Len(run.log) = Depth /\ Depth > 1
    /\ run.ctx.batch.grad_mode = TRUE
    /\ Len(run.ctx.fmode) = Depth

\* the parameter gradient that the backward recorded in `rec` (a running or a
\* completed one) propagates into sub-transform k of layer object l: one term
\* per visit of the first i log entries to that object
RECURSIVE ParamSum(_, _, _, _)
ParamSum(rec, i, l, k) ==
    IF i = 0 THEN 0
    ELSE LET e == rec.log[i]
             c == IF rec.kind = "dec" THEN rec.ctx.context ELSE 0
         IN Add(ParamSum(rec, i - 1, l, k),
                IF e.layer = l
                THEN GradW(l, k, e.on[k], c, DropMask(e.under[k]), e.with[k])
                ELSE 0)

\* the parameter gradients of one whole backward, per layer object
StepGrads(rec) ==
    [l \in LayerIds |-> [k \in KeysOf(rec.kind) |-> ParamSum(rec, Len(rec.log), l, k)]]

AddGrads(a, b) ==
    [l \in LayerIds |-> [k \in DOMAIN a[l] |-> Add(a[l][k], b[l][k])]]

\* C26: when a backward over the N layers of a stack completes, every layer
\* position has been visited once and at each visit every sub-transform of the
\* layer (2 for an encoder layer, 4 for a decoder layer) received exactly one
\* propagation, added to the parameter gradient already present; so the
\* parameter gradients after the step are those before it plus the step's
\* own, and after two steps with no zeroing in between they are the sum of
\* both steps' gradients
C26_ParameterGradients ==
    [][(run.pc = "bwd" /\ run'.pc = "idle" /\ last'.status = "done") =>
         LET kind == run.kind
         IN /\ Len(run.log) = Depth
            /\ \A p \in 1 .. Depth : \E i \in 1 .. Depth : run.log[i].pos = p
            /\ \A i \in 1 .. Len(run.log) :
                 LET e == run.log[i]
                     c == IF kind = "dec" THEN run.ctx.context ELSE 0
                 IN /\ DOMAIN e.with = KeysOf(kind)
                    /\ Cardinality(KeysOf(kind)) = IF kind = "enc" THEN 2 ELSE 4
                    /\ \A k \in KeysOf(kind) :
                         e.pgAfter[k] =
                           Add(e.pgBefore[k],
                               GradW(e.layer, k, e.on[k], c,
                                     DropMask(e.under[k]), e.with[k]))
            /\ last'.pgEnd[kind] = AddGrads(run.pg0[kind], StepGrads(run))
            /\ (last.status = "done" /\ last.kind = kind /\ last.pgEnd = run.pg0) =>
                 /\ last'.pgEnd[kind] = AddGrads(last.pgEnd[kind], StepGrads(run))
                 /\ last.pg0 = ZeroGrads =>
                      last'.pgEnd[kind] = AddGrads(StepGrads(last), StepGrads(run))
      ]_vars

\* a second backward has completed on a stack of more than one layer, no
\* failure and no zeroing since the first: the parameter gradients it started
\* from were not zero, and it changed them
C26_Witness ==
    /\ last.status = "done" /\ Len(last.layers) > 1 /\ nRaised = 0
    /\ last.pg0 # ZeroGrads
    /\ last.pgEnd # last.pg0
    /\ last.pgEnd[last.kind] = AddGrads(last.pg0[last.kind], StepGrads(last))

\* C27: after a backward orchestrator returns, the gradient tensor it was
\* handed (last.grad_output, the caller's tensor as the call leaves it) holds
\* the values the caller passed in (last.g)
C27_IncomingGradientUnchanged ==
    last.status = "done" => last.grad_output = last.g

\* a layer's forward left both stream arguments as they were and computed
\* each rail from the value the other rail's argument held on entry
ForwardRailsApart(kind, fin, fmid, fout, fz, fargs) ==
    /\ fargs = fin
    /\ IF kind = "enc"
       THEN /\ fout[1] = Add(fz.attn, fin[1])
            /\ fout[2] = Add(fz.ffn, fin[2])
       ELSE /\ fmid[1] = Add(fz.attn, fin[1])
            /\ fmid[2] = Add(fz.ffn1, fin[2])

\* the forward of rec (a running forward or a saved context) never let one
\* rail disturb the other, and its first layer received one tensor twice
ForwardAliasSafe(rec) ==
    \A p \in 1 .. Len(rec.fin) :
        /\ rec.fsame[p] = (p = 1)
        /\ rec.fsame[p] => rec.fin[p][1] = rec.fin[p][2]
        /\ ForwardRailsApart(rec.kind, rec.fin[p], rec.fmid[p], rec.fout[p],
                             rec.fz[p], rec.fargs[p])

\* C28: both state streams of a forward and both gradient streams of a
\* backward start as one tensor object; every layer forward and backward_pass
\* leaves each stream and gradient argument holding what it held on entry, so
\* the second rail is always computed from the entry value of its argument
\* even when that argument is the very tensor the first rail was computed from
C28_AliasSafety ==
    /\ (run.pc \in {"fwd", "raised"} /\ run.phase = "fwd") =>
          /\ run.idx = 0 => run.x1 = run.hidden_states /\ run.x2 = run.hidden_states
          /\ ForwardAliasSafe(run)
    /\ \A ctx \in ctxs : ForwardAliasSafe(ctx)
    /\ (run.pc \in {"bwd", "raised"} /\ run.phase = "bwd") =>
          /\ run.idx = 0 => run.dx1 = run.grad_output /\ run.dx2 = run.grad_output
          /\ \A i \in 1 .. Len(run.log) :
               LET e == run.log[i]
                   c == IF run.kind = "dec" THEN run.ctx.context ELSE 0
                   k == IF run.kind = "dec" THEN "src" ELSE "attn"
                   dsecond == IF run.kind = "dec" THEN e.with.ffn1 ELSE e.ret[4]
               IN /\ e.same = (i = 1)
                  /\ e.same => e.args[3] = e.args[4]
                  /\ e.sargs = <<e.args[1], e.args[2]>>
                  /\ e.gargs = <<e.args[3], e.args[4]>>
                  /\ dsecond = Add(e.args[4],
                                   GradX(e.layer, k, e.on[k], c,
                                         DropMask(e.under[k]), e.with[k]))

\* a whole backward has run on a stack of two layers whose forward is on
\* record: in the first layer of each direction both arguments were one
\* tensor, and the rails left it with different values
C28_Witness ==
    /\ run.pc = "bwd" /\ Len(run.log) = 2 /\ Depth = 2
    /\ run.log[1].same /\ run.log[1].ret[3] # run.log[1].ret[4]
    /\ run.log[1].ret[3] # run.log[1].args[3]
    /\ run.ctx.fsame[1] /\ run.ctx.fout[1][1] # run.ctx.fout[1][2]
    /\ run.ctx.fout[1][1] # run.ctx.fin[1][1]

\* C29: every update_scale call with overflow divides loss_scale by
\* scale_factor and records the iteration of the call as the last overflow; a
\* call without overflow either leaves loss_scale unchanged or multiplies it
\* by scale_factor, and it multiplies only when at least scale_window
\* overflow-free calls in a row, this one included, have been made since the
\* last overflow or since construction
C29_UpdateScale ==
    [][(run.pc = "scaler" /\ run'.calls = run.calls + 1) =>
         LET old == run.scaler
             new == run'.scaler
         IN IF run'.overflow
            THEN /\ new.loss_scale = ScaleDiv(old.loss_scale, old.scale_factor)
                 /\ new.last_overflow_iter = new.iter
            ELSE \/ new.loss_scale = old.loss_scale
                 \/ /\ new.loss_scale = ScaleMul(old.loss_scale, old.scale_factor)
                    /\ run'.clean >= old.scale_window
      ]_vars

\* every gradient was all-reduced exactly once, directly when larger than
\* buffer_size and otherwise in exactly one buffer flush
ReducedOnce(r) ==
    \A i \in 1 .. Len(r.grads) :
        /\ r.count[i] = 1
        /\ r.path[i] = IF r.grads[i].sz > r.buffer_size THEN "direct" ELSE "buffer"
        /\ Cardinality({f \in 1 .. Len(r.flushes) :
                          \E j \in 1 .. Len(r.flushes[f].buffer) :
                              r.flushes[f].buffer[j] = i})
             = IF r.path[i] = "buffer" THEN 1 ELSE 0

\* no flush held more than buffer_size
FlushesFit(r) ==
    \A f \in 1 .. Len(r.flushes) : r.flushes[f].filled <= r.buffer_size

\* every gradient holds its all-reduced sum divided by grad_denom
Rescaled(r) ==
    \A i \in 1 .. Len(r.grads) :
        r.cur[i] = DivBy(AllReduce(r.grads[i].data, r.grads[i]), r.grad_denom)

\* C30: for every list of gradients, buffer_size and positive grad_denom, no
\* buffer flush holds more than buffer_size, and when the call returns every
\* gradient has been all-reduced exactly once (directly when larger than
\* buffer_size, otherwise in exactly one flush) and holds its all-reduced sum
\* divided by grad_denom, whichever path it took
C30_AllReduceAndRescale ==
    /\ run.pc \in {"loop", "done"} => FlushesFit(run)
    /\ run.pc = "done" => ReducedOnce(run) /\ Rescaled(run)

\* once per gradient and within buffer_size, whatever the rescaling does
ReducedOnceAndFits ==
    /\ run.pc \in {"loop", "done"} => FlushesFit(run)
    /\ run.pc = "done" => ReducedOnce(run)

====
